---- MODULE Spec2Model ----
(***************************************************************************)
(* A model of pureba.py: the webcam capture pipeline (WebcamCapture), the  *)
(* interactive and single-shot modes of WebcamApp, and the image settings  *)
(* (brightness, contrast) the interactive keys adjust.                     *)
(*                                                                         *)
(* The camera, the display and the file writer are external: every call to *)
(* them is an input of the action that makes it, drawn from the outcomes   *)
(* the call can have (a value, a failure value, an exception).  The calls  *)
(* VideoCapture.release and destroyAllWindows are taken not to raise: the  *)
(* code calls them outside any try block.                                  *)
(***************************************************************************)
EXTENDS Integers, Sequences, FiniteSets, TLC

(***************************************************************************)
(* Bounds of the model.                                                    *)
(***************************************************************************)
MaxHandles == 2      \* VideoCapture objects constructed in one behaviour
MaxReleases == 2     \* release() calls on one handle by direct cleanup calls
MaxSaves == 2        \* saves in one interactive session
MaxIters == 2        \* loop iterations in one behaviour of Spec

(***************************************************************************)
(* Program constants.                                                      *)
(***************************************************************************)
BrightnessDefault == 0
BrightnessMax == 100
BrightnessMin == 0 - 100
BrightnessStep == 5
KeyMask == 256                 \* waitKey(1) & 0xFF keeps the low byte
KeyQuit == 113                 \* ord('q')
KeySave == 115                 \* ord('s')
KeyPlus == 43                  \* ord('+')
KeyEquals == 61                \* ord('=')
KeyMinus == 45                 \* ord('-')
KeyLBracket == 91              \* ord('[')
KeyRBracket == 93              \* ord(']')

(***************************************************************************)
(* Python floats.  contrast is an IEEE-754 double; the values it takes lie *)
(* in (-0.2, 3.2), where every double is a multiple of 2^-56.  A double x  *)
(* is the pair <<hi, lo>> with x * 2^56 = hi * 2^28 + lo, 0 <= lo < 2^28.  *)
(* FAdd and FSub compute the exact sum or difference and round it to the   *)
(* nearest double, ties to even, as the hardware does.                     *)
(***************************************************************************)
Limb == 2^28

F01 == <<26843545, 161061274>>     \* the double 0.1
F02 == <<53687091, 53687092>>      \* the double 0.2
F08 == <<214748364, 214748368>>    \* the double 0.8
F30 == <<805306368, 0>>            \* the double 3.0
F00 == <<0, 0>>                    \* the double 0.0

FLess(x, y) == x[1] < y[1] \/ (x[1] = y[1] /\ x[2] < y[2])
FLeq(x, y) == x = y \/ FLess(x, y)
FMax(x, y) == IF FLess(x, y) THEN y ELSE x      \* max(x, y)
FMin(x, y) == IF FLess(y, x) THEN y ELSE x      \* min(x, y)

\* The spacing of the doubles around hi * 2^28 + lo, in units of 2^-56.
Ulp(hi) ==
    IF hi >= 2^29 THEN 32
    ELSE IF hi >= 2^28 THEN 16
    ELSE IF hi >= 2^27 THEN 8
    ELSE IF hi >= 2^26 THEN 4
    ELSE IF hi >= 2^25 THEN 2
    ELSE 1

\* Round the exact value hi * 2^28 + lo to the nearest double, ties to even.
FRound(hi, lo) ==
    LET u == Ulp(hi)
        r == lo % u
        q == lo \div u
        up == (2 * r > u) \/ (2 * r = u /\ q % 2 = 1)
        lo2 == lo - r + (IF up THEN u ELSE 0)
    IN  IF lo2 = Limb THEN <<hi + 1, 0>> ELSE <<hi, lo2>>

FAdd(x, y) ==
    LET s == x[2] + y[2]
    IN  FRound(x[1] + y[1] + (s \div Limb), s % Limb)

FSub(x, y) ==
    LET d == x[2] - y[2]
    IN  FRound(x[1] - y[1] + (d \div Limb), d % Limb)

ContrastDefault == F08
ContrastStep == F01
ContrastMin == F01
ContrastMax == F30

(***************************************************************************)
(* The state.                                                              *)
(***************************************************************************)
VARIABLES
    cap,             \* WebcamCapture.cap: 0 is None, h > 0 the handle handles[h]
    is_initialized,  \* WebcamCapture.is_initialized
    brightness,      \* WebcamApp.settings.brightness
    contrast,        \* WebcamApp.settings.contrast, a double
    running,         \* WebcamApp.running
    frame_count,     \* the local frame_count of run_interactive_mode
    pc,              \* "idle", or "loop": inside the while loop of run_interactive_mode
    handles,         \* every VideoCapture object constructed so far
    windows,         \* TRUE while display windows exist
    last,            \* the last operation: its name, result, key polled, external calls
    iters,           \* loop iterations run so far
    proc,            \* main(): where it is, and the exit code of the process
    pixel,           \* one channel sample given to the transform, and the sample returned
    quit_pressed,    \* the user has pressed 'q' and no waitKey has returned it yet
    names            \* the file names the saves of the session were given

vars == <<cap, is_initialized, brightness, contrast, running, frame_count, pc,
          handles, windows, last, iters, proc, pixel, quit_pressed, names>>

NoKey == 0 - 1       \* last.key when the operation polled no key
NoExit == 0 - 1      \* proc.code while the process runs
NoSample == 0 - 1    \* pixel.out before the transform has run

\* Everything outside the application object: main, the sample under transform, the
\* keyboard.
OutsideUnchanged == UNCHANGED <<proc, pixel, quit_pressed>>

Saw(op, ret, key, calls) == [op |-> op, ret |-> ret, key |-> key, calls |-> calls]

\* The pipeline object and the devices it touches, as one value.
World == [cap |-> cap, is_initialized |-> is_initialized,
          handles |-> handles, windows |-> windows]

SetWorld(w) ==
    /\ cap' = w.cap
    /\ is_initialized' = w.is_initialized
    /\ handles' = w.handles
    /\ windows' = w.windows

\* The handle h holds the device: it was opened and release() was never called on it.
HandleOpen(hs, h) == h # 0 /\ hs[h].opened /\ hs[h].releases = 0

Init ==
    /\ cap = 0
    /\ is_initialized = FALSE
    /\ brightness = BrightnessDefault
    /\ contrast = ContrastDefault
    /\ running = FALSE
    /\ frame_count = 0
    /\ pc = "idle"
    /\ handles = << >>
    /\ windows = FALSE
    /\ last = Saw("new", "void", NoKey, << >>)
    /\ iters = 0
    /\ proc = [at |-> "start", code |-> NoExit, why |-> "running"]
    /\ pixel = [in |-> 0, out |-> NoSample]
    /\ quit_pressed = FALSE
    /\ names = << >>

(***************************************************************************)
(* WebcamCapture.  Each method is an operator from the pipeline (a World)  *)
(* and the outcome of its external calls to the pipeline afterwards, the   *)
(* value returned and the external calls made.                             *)
(***************************************************************************)
Result(w, ret, calls) == [w |-> w, ret |-> ret, calls |-> calls]

\* cv2.VideoCapture(index) then isOpened() then set(WIDTH), set(HEIGHT):
\*   "ctor_raises"  the constructor raises, no object is made
\*   "not_opened"   the object is made, isOpened() is False
\*   "set_raises"   the device is open, a set() raises
\*   "set_false"    the device is open, set() returns False (ignored by the code)
\*   "ok"           the device is open, the resolution is set
OpenOutcomes == {"ctor_raises", "not_opened", "set_raises", "set_false", "ok"}

\* initialize_camera with the flag set before the isOpened() test.
initialize_cameraFlagEarly(w, o) ==
    IF o = "ctor_raises"
    THEN Result(w, "false", <<"VideoCapture">>)
    ELSE LET hs == Append(w.handles, [opened |-> (o # "not_opened"), releases |-> 0])
             w1 == [w EXCEPT !.handles = hs, !.cap = Len(hs), !.is_initialized = TRUE]
         IN  IF o = "not_opened"
             THEN Result(w1, "false", <<"VideoCapture", "isOpened">>)
             ELSE IF o = "set_raises"
             THEN Result(w1, "false", <<"VideoCapture", "isOpened", "set">>)
             ELSE Result(w1, "true", <<"VideoCapture", "isOpened", "set", "set">>)

initialize_camera(w, o) ==
    IF o = "ctor_raises"
    THEN Result(w, "false", <<"VideoCapture">>)
    ELSE LET hs == Append(w.handles, [opened |-> (o # "not_opened"), releases |-> 0])
             w1 == [w EXCEPT !.handles = hs, !.cap = Len(hs)]
         IN  IF o = "not_opened"
             THEN Result(w1, "false", <<"VideoCapture", "isOpened">>)
             ELSE IF o = "set_raises"
             THEN Result(w1, "false", <<"VideoCapture", "isOpened", "set">>)
             ELSE Result([w1 EXCEPT !.is_initialized = TRUE], "true",
                         <<"VideoCapture", "isOpened", "set", "set">>)

\* cap.read(): "frame" (ret is True), "no_frame" (ret is False), "read_raises".
\* A handle that does not hold the device gives no frame.
ReadOutcomes == {"frame", "no_frame", "read_raises"}

\* capture_frame marking the pipeline uninitialized when the read fails.
capture_frameDropsInit(w, o) ==
    IF ~w.is_initialized \/ w.cap = 0
    THEN Result(w, "none", << >>)
    ELSE IF o = "frame" /\ HandleOpen(w.handles, w.cap)
    THEN Result(w, "frame", <<"read">>)
    ELSE Result([w EXCEPT !.is_initialized = FALSE], "none", <<"read">>)

capture_frame(w, o) ==
    IF ~w.is_initialized \/ w.cap = 0
    THEN Result(w, "none", << >>)
    ELSE IF o = "frame" /\ HandleOpen(w.handles, w.cap)
    THEN Result(w, "frame", <<"read">>)
    ELSE Result(w, "none", <<"read">>)

\* cv2.convertScaleAbs: "ok", or "raises" (the method then returns its input).
TransformOutcomes == {"ok", "raises"}

adjust_brightness_contrast(o) ==
    [ret |-> IF o = "ok" THEN "adjusted" ELSE "frame", calls |-> <<"convertScaleAbs">>]

\* mkdir then cv2.imwrite: "written", "not_written" (imwrite returns False),
\* "mkdir_raises", "imwrite_raises".
SaveOutcomes == {"written", "not_written", "mkdir_raises", "imwrite_raises"}

save_image(o) ==
    [ret |-> IF o = "written" THEN "true" ELSE "false",
     calls |-> IF o = "mkdir_raises" THEN <<"mkdir">> ELSE <<"mkdir", "imwrite">>]

\* release_camera without line 153.
release_cameraKeepsFlag(w) ==
    IF w.cap # 0
    THEN Result([w EXCEPT !.handles[w.cap].releases = @ + 1], "void", <<"release">>)
    ELSE Result(w, "void", << >>)

release_camera(w) ==
    IF w.cap # 0
    THEN Result([w EXCEPT !.handles[w.cap].releases = @ + 1, !.is_initialized = FALSE],
                "void", <<"release">>)
    ELSE Result(w, "void", << >>)

(***************************************************************************)
(* WebcamApp.                                                              *)
(***************************************************************************)
setup(w, o) == initialize_camera(w, o)

cleanup(w) ==
    LET r == release_camera(w)
    IN  Result([r.w EXCEPT !.windows = FALSE], "void", r.calls \o <<"destroyAllWindows">>)

\* The bounded updates of lines 221-232.
Min(a, b) == IF b < a THEN b ELSE a
Max(a, b) == IF b > a THEN b ELSE a
\* The increase with max written for min.
IncreaseBrightnessMaxForMin(b) == Max(BrightnessMax, b + BrightnessStep)
IncreaseBrightness(b) == Min(BrightnessMax, b + BrightnessStep)
DecreaseBrightness(b) == Max(BrightnessMin, b - BrightnessStep)
\* The decrease clamped at 0.0, the lower end the comment of line 20 names.
DecreaseContrastToZero(c) == FMax(F00, FSub(c, ContrastStep))
DecreaseContrast(c) == FMax(ContrastMin, FSub(c, ContrastStep))
IncreaseContrast(c) == FMin(ContrastMax, FAdd(c, ContrastStep))

\* The values cv2.waitKey(1) returns: -1 when no key is down, a key code, or a key
\* code with modifier bits above the low byte.
RawKeys == {0 - 1, KeyQuit, KeySave, KeyPlus, KeyEquals, KeyMinus, KeyLBracket,
            KeyRBracket, 97, 2^20 + KeyQuit}

MaskKey(raw) == raw % KeyMask

\* capture_single_image returning True whenever a frame was captured.
capture_single_imageIgnoresSave(w, oi, oc, ot, os) ==
    LET i == setup(w, oi)
    IN  IF i.ret # "true"
        THEN Result(i.w, "false", i.calls)
        ELSE LET c == capture_frame(i.w, oc)
                 t == adjust_brightness_contrast(ot)
                 s == save_image(os)
             IN  IF c.ret = "none"
                 THEN LET f == cleanup(c.w)
                      IN  Result(f.w, "false", i.calls \o c.calls \o f.calls)
                 ELSE LET f == cleanup(c.w)
                      IN  Result(f.w, "true",
                                 i.calls \o c.calls \o t.calls \o s.calls \o f.calls)

\* capture_single_image(): lines 240-270.
capture_single_image(w, oi, oc, ot, os) ==
    LET i == setup(w, oi)
    IN  IF i.ret # "true"
        THEN Result(i.w, "false", i.calls)
        ELSE LET c == capture_frame(i.w, oc)
                 t == adjust_brightness_contrast(ot)
                 s == save_image(os)
             IN  IF c.ret = "none"
                 THEN LET f == cleanup(c.w)
                      IN  Result(f.w, "false", i.calls \o c.calls \o f.calls)
                 ELSE LET f == cleanup(c.w)
                      IN  Result(f.w, s.ret,
                                 i.calls \o c.calls \o t.calls \o s.calls \o f.calls)

(***************************************************************************)
(* The operations, as actions.                                             *)
(***************************************************************************)
SettingsUnchanged == UNCHANGED <<brightness, contrast>>
AppUnchanged ==
    /\ UNCHANGED <<brightness, contrast, running, frame_count, pc, iters, names>>
    /\ OutsideUnchanged

CanRelease == IF cap = 0 THEN TRUE ELSE handles[cap].releases < MaxReleases

\* WebcamApp.setup() / WebcamCapture.initialize_camera(), called directly.
Setup ==
    /\ pc = "idle"
    /\ Len(handles) < MaxHandles
    /\ \E o \in OpenOutcomes :
         LET r == setup(World, o)
         IN  /\ SetWorld(r.w)
             /\ last' = Saw("setup", r.ret, NoKey, r.calls)
    /\ AppUnchanged

\* WebcamCapture.capture_frame(), called directly.
CaptureFrame ==
    /\ pc = "idle"
    /\ \E o \in ReadOutcomes :
         LET r == capture_frame(World, o)
         IN  /\ SetWorld(r.w)
             /\ last' = Saw("capture_frame", r.ret, NoKey, r.calls)
    /\ AppUnchanged

\* WebcamCapture.release_camera(), called directly.
ReleaseCamera ==
    /\ pc = "idle"
    /\ CanRelease
    /\ LET r == release_camera(World)
       IN  /\ SetWorld(r.w)
           /\ last' = Saw("release_camera", r.ret, NoKey, r.calls)
    /\ AppUnchanged

\* WebcamApp.cleanup(), called directly.
Cleanup ==
    /\ pc = "idle"
    /\ CanRelease
    /\ LET r == cleanup(World)
       IN  /\ SetWorld(r.w)
           /\ last' = Saw("cleanup", r.ret, NoKey, r.calls)
    /\ AppUnchanged

\* WebcamApp.capture_single_image().
CaptureSingleImage ==
    /\ pc = "idle"
    /\ Len(handles) < MaxHandles
    /\ \E oi \in OpenOutcomes, oc \in ReadOutcomes, ot \in TransformOutcomes,
          os \in SaveOutcomes :
         LET r == capture_single_image(World, oi, oc, ot, os)
         IN  /\ SetWorld(r.w)
             /\ last' = Saw("capture_single_image", r.ret, NoKey, r.calls)
    /\ AppUnchanged

(***************************************************************************)
(* WebcamApp.run_interactive_mode(), lines 175-238, in steps: the call up  *)
(* to the loop, one pass of the loop body, and the ways out of the loop.   *)
(***************************************************************************)
\* Lines 177-194: setup, then running = True and frame_count = 0.
RunInteractiveMode ==
    /\ pc = "idle"
    /\ Len(handles) < MaxHandles
    /\ \E o \in OpenOutcomes :
         LET i == setup(World, o)
         IN  /\ SetWorld(i.w)
             /\ IF i.ret # "true"
                THEN /\ last' = Saw("run_interactive_mode", "void", NoKey, i.calls)
                     /\ UNCHANGED <<running, frame_count, pc>>
                ELSE /\ running' = TRUE
                     /\ frame_count' = 0
                     /\ pc' = "loop"
                     /\ last' = Saw("loop", "entered", NoKey, i.calls)
    /\ names' = IF pc' = "loop" THEN << >> ELSE names
    /\ UNCHANGED <<brightness, contrast, iters>>
    /\ OutsideUnchanged

\* The loop left with the cleanup in the KeyboardInterrupt and normal paths only.
LeaveLoopNoFinally(w, ret, calls) ==
    LET f == IF ret = "exception" THEN Result(w, "void", << >>) ELSE cleanup(w)
    IN  /\ SetWorld(f.w)
        /\ pc' = "idle"
        /\ frame_count' = 0
        /\ last' = Saw("run_interactive_mode", ret, NoKey, calls \o f.calls)

\* The finally clause (line 238) as the loop is left; ret is "void" when the call
\* returns and "exception" when an exception goes on to the caller.
LeaveLoop(w, ret, calls) ==
    LET f == cleanup(w)
    IN  /\ SetWorld(f.w)
        /\ pc' = "idle"
        /\ frame_count' = 0
        /\ last' = Saw("run_interactive_mode", ret, NoKey, calls \o f.calls)

\* Lines 215-232: the key dispatch, on the settings, the flag and the counter.
App == [brightness |-> brightness, contrast |-> contrast, running |-> running,
        frame_count |-> frame_count]

\* The dispatch with '=' left out of the increase and the two contrast keys swapped.
handle_keySwapped(a, key, os) ==
    IF key = KeyQuit THEN [a |-> [a EXCEPT !.running = FALSE], calls |-> << >>]
    ELSE IF key = KeySave
    THEN [a |-> [a EXCEPT !.frame_count = @ + 1], calls |-> save_image(os).calls]
    ELSE IF key = KeyPlus
    THEN [a |-> [a EXCEPT !.brightness = IncreaseBrightness(@)], calls |-> << >>]
    ELSE IF key = KeyMinus
    THEN [a |-> [a EXCEPT !.brightness = DecreaseBrightness(@)], calls |-> << >>]
    ELSE IF key = KeyRBracket
    THEN [a |-> [a EXCEPT !.contrast = DecreaseContrast(@)], calls |-> << >>]
    ELSE IF key = KeyLBracket
    THEN [a |-> [a EXCEPT !.contrast = IncreaseContrast(@)], calls |-> << >>]
    ELSE [a |-> a, calls |-> << >>]

\* The dispatch with the quit key putting the settings back to their defaults.
handle_keyQuitResets(a, key, os) ==
    IF key = KeyQuit
    THEN [a |-> [a EXCEPT !.running = FALSE, !.brightness = BrightnessDefault,
                          !.contrast = ContrastDefault],
          calls |-> << >>]
    ELSE IF key = KeySave
    THEN [a |-> [a EXCEPT !.frame_count = @ + 1], calls |-> save_image(os).calls]
    ELSE IF key = KeyPlus \/ key = KeyEquals
    THEN [a |-> [a EXCEPT !.brightness = IncreaseBrightness(@)], calls |-> << >>]
    ELSE IF key = KeyMinus
    THEN [a |-> [a EXCEPT !.brightness = DecreaseBrightness(@)], calls |-> << >>]
    ELSE IF key = KeyLBracket
    THEN [a |-> [a EXCEPT !.contrast = DecreaseContrast(@)], calls |-> << >>]
    ELSE IF key = KeyRBracket
    THEN [a |-> [a EXCEPT !.contrast = IncreaseContrast(@)], calls |-> << >>]
    ELSE [a |-> a, calls |-> << >>]

\* The dispatch with the counter advanced only by a save that wrote its file.
handle_keyCountsWritten(a, key, os) ==
    IF key = KeyQuit THEN [a |-> [a EXCEPT !.running = FALSE], calls |-> << >>]
    ELSE IF key = KeySave
    THEN [a |-> [a EXCEPT !.frame_count = IF save_image(os).ret = "true" THEN @ + 1 ELSE @],
          calls |-> save_image(os).calls]
    ELSE IF key = KeyPlus \/ key = KeyEquals
    THEN [a |-> [a EXCEPT !.brightness = IncreaseBrightness(@)], calls |-> << >>]
    ELSE IF key = KeyMinus
    THEN [a |-> [a EXCEPT !.brightness = DecreaseBrightness(@)], calls |-> << >>]
    ELSE IF key = KeyLBracket
    THEN [a |-> [a EXCEPT !.contrast = DecreaseContrast(@)], calls |-> << >>]
    ELSE IF key = KeyRBracket
    THEN [a |-> [a EXCEPT !.contrast = IncreaseContrast(@)], calls |-> << >>]
    ELSE [a |-> a, calls |-> << >>]

handle_key(a, key, os) ==
    IF key = KeyQuit THEN [a |-> [a EXCEPT !.running = FALSE], calls |-> << >>]
    ELSE IF key = KeySave
    THEN [a |-> [a EXCEPT !.frame_count = @ + 1], calls |-> save_image(os).calls]
    ELSE IF key = KeyPlus \/ key = KeyEquals
    THEN [a |-> [a EXCEPT !.brightness = IncreaseBrightness(@)], calls |-> << >>]
    ELSE IF key = KeyMinus
    THEN [a |-> [a EXCEPT !.brightness = DecreaseBrightness(@)], calls |-> << >>]
    ELSE IF key = KeyLBracket
    THEN [a |-> [a EXCEPT !.contrast = DecreaseContrast(@)], calls |-> << >>]
    ELSE IF key = KeyRBracket
    THEN [a |-> [a EXCEPT !.contrast = IncreaseContrast(@)], calls |-> << >>]
    ELSE [a |-> a, calls |-> << >>]

SetApp(a) ==
    /\ brightness' = a.brightness
    /\ contrast' = a.contrast
    /\ running' = a.running
    /\ frame_count' = a.frame_count

\* imshow, imshow, waitKey: "shown" (a key code is returned), or one of them raises.
DisplayOutcomes == {"shown", "imshow_raises", "waitKey_raises"}

\* Line 218: f"imagen_{frame_count:04d}.jpg".  The decimal digits of n, padded with
\* zeros on the left to four digits.
RECURSIVE Digits(_)
Digits(n) == IF n < 10 THEN <<n>> ELSE Append(Digits(n \div 10), n % 10)

RECURSIVE PadLeft(_, _)
PadLeft(ds, width) == IF Len(ds) >= width THEN ds ELSE PadLeft(<<0>> \o ds, width)

Format04d(n) == PadLeft(Digits(n), 4)

Filename(n) == <<"imagen_", Format04d(n), ".jpg">>

\* A failed read whose pass also stops the session.
ContinuePassStops(c) ==
    /\ SetWorld(c.w)
    /\ last' = Saw("loop", "continue", NoKey, c.calls)
    /\ running' = FALSE
    /\ UNCHANGED <<brightness, contrast, frame_count, pc, names, quit_pressed>>

\* Lines 200-201: no frame, the pass ends at continue.
ContinuePass(c) ==
    /\ SetWorld(c.w)
    /\ last' = Saw("loop", "continue", NoKey, c.calls)
    /\ UNCHANGED <<brightness, contrast, running, frame_count, pc, names, quit_pressed>>

\* Lines 198-232: one pass of the loop body, with the outcome of convertScaleAbs
\* drawn from T and the key codes waitKey may return drawn from K.  The frame
\* adjust_brightness_contrast returns goes to imshow and imwrite only, so the
\* outcome changes nothing the pass leaves behind.  A 'q' the user has pressed is
\* the key the next waitKey returns.
LoopBodyOn(T, K) ==
    /\ pc = "loop"
    /\ running
    /\ UNCHANGED <<proc, pixel>>
    /\ \E oc \in ReadOutcomes :
         LET c == capture_frame(World, oc)
         IN  IF c.ret = "none"
             THEN ContinuePass(c)
             ELSE \E ot \in T, od \in DisplayOutcomes :
                    LET t == adjust_brightness_contrast(ot)
                        shown == [c.w EXCEPT !.windows = TRUE]
                    IN  IF od = "imshow_raises"
                        THEN /\ LeaveLoop(c.w, "exception", c.calls \o t.calls \o <<"imshow">>)
                             /\ UNCHANGED <<brightness, contrast, running, names,
                                            quit_pressed>>
                        ELSE IF od = "waitKey_raises"
                        THEN /\ LeaveLoop(shown, "exception",
                                          c.calls \o t.calls \o <<"imshow", "imshow", "waitKey">>)
                             /\ UNCHANGED <<brightness, contrast, running, names,
                                            quit_pressed>>
                        ELSE \E raw \in (IF quit_pressed THEN {KeyQuit} ELSE K) :
                               \E os \in (IF MaskKey(raw) = KeySave
                                          THEN SaveOutcomes ELSE {"written"}) :
                                 LET k == handle_key(App, MaskKey(raw), os)
                                 IN  /\ k.a.frame_count <= MaxSaves
                                     /\ SetWorld(shown)
                                     /\ SetApp(k.a)
                                     /\ pc' = pc
                                     /\ quit_pressed' = FALSE
                                     /\ names' = IF MaskKey(raw) = KeySave
                                                 THEN Append(names, Filename(frame_count))
                                                 ELSE names
                                     /\ last' = Saw("loop", "handled", MaskKey(raw),
                                                    c.calls \o t.calls
                                                    \o <<"imshow", "imshow", "waitKey">>
                                                    \o k.calls)

LoopBody(T) == LoopBodyOn(T, RawKeys)

\* Line 197: the loop test finds running False; the finally clause runs.
LoopExit ==
    /\ pc = "loop"
    /\ ~running
    /\ LeaveLoop(World, "void", << >>)
    /\ UNCHANGED <<brightness, contrast, running, iters, names>>
    /\ OutsideUnchanged

\* Lines 234-238: KeyboardInterrupt inside the loop; the finally clause runs.
Interrupt ==
    /\ pc = "loop"
    /\ LeaveLoop(World, "void", <<"KeyboardInterrupt">>)
    /\ UNCHANGED <<brightness, contrast, running, iters, names>>
    /\ OutsideUnchanged

\* A pass of the loop, counted against MaxIters.
LoopIteration ==
    /\ iters < MaxIters
    /\ LoopBody(TransformOutcomes)
    /\ iters' = iters + 1

(***************************************************************************)
(* Spec: the public operations in any order.                               *)
(***************************************************************************)
Next ==
    \/ Setup
    \/ CaptureFrame
    \/ ReleaseCamera
    \/ Cleanup
    \/ CaptureSingleImage
    \/ RunInteractiveMode
    \/ LoopIteration
    \/ LoopExit
    \/ Interrupt

Spec == Init /\ [][Next]_vars

(***************************************************************************)
(* SessionSpec: one interactive session of a new application, with any     *)
(* number of passes of the loop.  convertScaleAbs succeeds here; Spec has  *)
(* the passes where it raises.                                             *)
(***************************************************************************)
SessionStart ==
    /\ last.op = "new"
    /\ RunInteractiveMode

SessionIteration ==
    /\ LoopBody({"ok"})
    /\ UNCHANGED iters

SessionNext ==
    \/ SessionStart
    \/ SessionIteration
    \/ LoopExit
    \/ Interrupt

SessionSpec == Init /\ [][SessionNext]_vars

(***************************************************************************)
(* LiveSpec: one interactive session in which the user presses 'q' at some *)
(* moment, with the loop scheduled again and again: weak fairness of the   *)
(* pass of the loop and of the loop test.  The outcomes of read, imshow    *)
(* and waitKey are the environment's and carry no fairness.  iters counts  *)
(* the passes modulo MaxIters + 1.                                         *)
(***************************************************************************)
\* The keys other than 'q' the user presses in this session.
LiveKeys == {0 - 1, KeySave}

\* The user presses 'q' while the loop runs; line 213 is where it is read.
PressQuit ==
    /\ pc = "loop"
    /\ running
    /\ ~quit_pressed
    /\ quit_pressed' = TRUE
    /\ UNCHANGED <<cap, is_initialized, brightness, contrast, running, frame_count, pc,
                   handles, windows, last, iters, proc, pixel, names>>

LiveIteration ==
    /\ LoopBodyOn({"ok"}, LiveKeys)
    /\ iters' = (iters + 1) % (MaxIters + 1)

LiveNext ==
    \/ SessionStart
    \/ LiveIteration
    \/ PressQuit
    \/ LoopExit

LiveSpec ==
    /\ Init
    /\ [][LiveNext]_vars
    /\ WF_vars(LiveIteration)
    /\ WF_vars(LoopExit)

(***************************************************************************)
(* main(), lines 278-310: the prompt, the mode chosen, and the end of the  *)
(* process.  main has no return value and the module calls no sys.exit, so *)
(* the process ends with the interpreter's status for a normal return.     *)
(***************************************************************************)
ExitStatus == 0

Exited(why) == [at |-> "exited", code |-> ExitStatus, why |-> why]

\* Line 287: input() returns "1", "2" or another string, or raises KeyboardInterrupt
\* or another exception (EOFError); lines 300-306 print and main returns.
MainInput ==
    /\ proc.at = "start"
    /\ \E in \in {"1", "2", "other", "interrupt", "error"} :
         proc' = IF in = "1" THEN [proc EXCEPT !.at = "mode1"]
                 ELSE IF in = "2" THEN [proc EXCEPT !.at = "filename"]
                 ELSE IF in = "other" THEN Exited("invalid")
                 ELSE Exited(in)
    /\ UNCHANGED <<cap, is_initialized, brightness, contrast, running, frame_count, pc,
                   handles, windows, last, iters, pixel, quit_pressed, names>>

\* Lines 292-294: the file name prompt; an empty answer takes the default name.
MainFilename ==
    /\ proc.at = "filename"
    /\ \E in \in {"name", "empty", "interrupt", "error"} :
         proc' = IF in \in {"name", "empty"} THEN [proc EXCEPT !.at = "mode2"]
                 ELSE Exited(in)
    /\ UNCHANGED <<cap, is_initialized, brightness, contrast, running, frame_count, pc,
                   handles, windows, last, iters, pixel, quit_pressed, names>>

\* Line 290.
MainRunInteractive ==
    /\ proc.at = "mode1"
    /\ last.op = "new"
    /\ RunInteractiveMode

\* Line 296.
MainCaptureSingle ==
    /\ proc.at = "mode2"
    /\ last.op = "new"
    /\ CaptureSingleImage

\* Lines 303-304: KeyboardInterrupt while the mode runs outside the loop of
\* run_interactive_mode; main prints and returns.
MainInterrupt ==
    /\ proc.at \in {"mode1", "mode2"}
    /\ pc = "idle"
    /\ proc' = Exited("interrupt")
    /\ UNCHANGED <<cap, is_initialized, brightness, contrast, running, frame_count, pc,
                   handles, windows, last, iters, pixel, quit_pressed, names>>

\* The mode has returned, or its exception was caught at lines 305-306; main returns.
MainReturn ==
    /\ proc.at \in {"mode1", "mode2"}
    /\ pc = "idle"
    /\ last.op \in {"run_interactive_mode", "capture_single_image"}
    /\ proc' = Exited(IF last.ret = "exception" THEN "error" ELSE "returned")
    /\ UNCHANGED <<cap, is_initialized, brightness, contrast, running, frame_count, pc,
                   handles, windows, last, iters, pixel, quit_pressed, names>>

MainNext ==
    \/ MainInput
    \/ MainFilename
    \/ MainRunInteractive
    \/ MainCaptureSingle
    \/ LoopIteration
    \/ LoopExit
    \/ Interrupt
    \/ MainInterrupt
    \/ MainReturn

MainSpec == Init /\ [][MainNext]_vars

(***************************************************************************)
(* The pixel transform, lines 105-117: cv2.convertScaleAbs(image, alpha,   *)
(* beta) on one channel sample of an 8-bit image.  OpenCV computes         *)
(* |sample * alpha + beta|, rounds it to the nearest integer with ties to  *)
(* even (cvRound) and saturates it to 0..255.  The contrasts taken here    *)
(* are multiples of 1/4, for which sample * alpha + beta is exact in the   *)
(* library's floating point whatever the build.                            *)
(***************************************************************************)
\* The double q / 4.
Quarter(q) == <<q * 2^26, 0>>

\* The number of quarters in the double c, a multiple of 1/4.
Quarters(c) == c[1] \div 2^26

\* v4 / 4 rounded to the nearest integer, ties to even.
RoundQuarters(v4) ==
    LET n == v4 \div 4
        r == v4 % 4
    IN  IF r > 2 \/ (r = 2 /\ n % 2 = 1) THEN n + 1 ELSE n

Abs(v) == IF v < 0 THEN 0 - v ELSE v

convertScaleAbs(s, alpha, beta) ==
    Min(255, RoundQuarters(Abs(Quarters(alpha) * s + 4 * beta)))

\* adjust_brightness_contrast on one sample: the sample convertScaleAbs gives, or
\* the input when the call raises (line 117).
adjust_sample(s, c, b, o) ==
    IF o = "ok" THEN convertScaleAbs(s, c, b) ELSE s

Samples == {0, 1, 2, 3, 10, 100, 127, 128, 200, 250, 254, 255}
SampleBrightness == {BrightnessStep * k : k \in (0 - 20) .. 20}
SampleContrasts == {Quarter(q) : q \in {1, 2, 3, 4, 6, 8, 10, 12}}

\* A new application whose settings were set within their bounds, and a sample.
TransformInit ==
    /\ cap = 0
    /\ is_initialized = FALSE
    /\ brightness \in SampleBrightness
    /\ contrast \in SampleContrasts
    /\ running = FALSE
    /\ frame_count = 0
    /\ pc = "idle"
    /\ handles = << >>
    /\ windows = FALSE
    /\ last = Saw("new", "void", NoKey, << >>)
    /\ iters = 0
    /\ proc = [at |-> "start", code |-> NoExit, why |-> "running"]
    /\ pixel \in [in : Samples, out : {NoSample}]
    /\ quit_pressed = FALSE
    /\ names = << >>

\* WebcamCapture.adjust_brightness_contrast(image, settings), called directly.
AdjustSample ==
    /\ pixel.out = NoSample
    /\ \E o \in TransformOutcomes :
         /\ pixel' = [pixel EXCEPT !.out = adjust_sample(pixel.in, contrast, brightness, o)]
         /\ last' = Saw("adjust_brightness_contrast", adjust_brightness_contrast(o).ret,
                        NoKey, adjust_brightness_contrast(o).calls)
    /\ UNCHANGED <<cap, is_initialized, brightness, contrast, running, frame_count, pc,
                   handles, windows, iters, proc, quit_pressed, names>>

TransformNext == AdjustSample

TransformSpec == TransformInit /\ [][TransformNext]_vars

(***************************************************************************)
(* The properties.                                                         *)
(***************************************************************************)
\* The pipeline is Ready: it is initialized and its handle holds the device.
Ready == is_initialized /\ HandleOpen(handles, cap)

\* C1: when capture_single_image returns, whatever the outcomes of the open, the
\* resolution setup, the read, the transform and the write were, the handle the
\* pipeline holds is not left open.
C1_SingleShotLeavesNoOpenHandle ==
    last.op = "capture_single_image" => ~HandleOpen(handles, cap)

\* C2: every step that leaves the loop of run_interactive_mode (quit, keyboard
\* interrupt, an exception of the display or the key poll) finds the handle open,
\* calls release on it once and closes the display windows before the call ends.
C2_LeavingLoopReleasesAndCloses ==
    [][(pc = "loop" /\ pc' # "loop")
         => /\ HandleOpen(handles, cap)
            /\ cap' = cap
            /\ handles'[cap].releases = handles[cap].releases + 1
            /\ ~is_initialized'
            /\ ~windows'
            /\ last'.op = "run_interactive_mode"]_vars

\* An exception of imshow or waitKey has left the loop, with the handle released and
\* the windows closed.
C2_Witness ==
    /\ last.op = "run_interactive_mode"
    /\ last.ret = "exception"
    /\ pc = "idle"
    /\ handles[cap].releases = 1
    /\ ~windows

\* C3: release is called exactly once for each successful open: no handle is
\* released more than once, and no opened handle the pipeline no longer holds is
\* without its release.
C3_ReleasedExactlyOnce ==
    \A h \in DOMAIN handles :
        /\ handles[h].releases <= 1
        /\ (handles[h].opened /\ h # cap) => handles[h].releases = 1

\* C4: brightness stays within [-100, 100]; an increase key pressed at 95 or above
\* gives 100, and 95 with +5 applied four times gives 100.
C4_BrightnessBounded ==
    [][/\ brightness' >= 0 - 100
       /\ brightness' <= 100
       /\ (last'.op = "loop" /\ last'.key \in {KeyPlus, KeyEquals} /\ brightness >= 95)
            => brightness' = 100
       /\ IncreaseBrightness(IncreaseBrightness(IncreaseBrightness(
            IncreaseBrightness(95)))) = 100]_vars

\* An increase key was the last key handled and brightness is at the upper bound.
C4_Witness ==
    /\ last.op = "loop"
    /\ last.key = KeyPlus
    /\ brightness = 100

\* C5: contrast stays within [0.1, 3.0] and above 0; a decrease key pressed at 0.2
\* or below gives 0.1, and 0.2 with -0.1 applied three times gives 0.1.
C5_ContrastBounded ==
    [][/\ FLeq(F01, contrast')
       /\ FLeq(contrast', F30)
       /\ FLess(F00, contrast')
       /\ (last'.op = "loop" /\ last'.key = KeyLBracket /\ FLeq(contrast, F02))
            => contrast' = F01
       /\ DecreaseContrast(DecreaseContrast(DecreaseContrast(F02))) = F01]_vars

\* The decrease key was the last key handled and contrast is at the lower bound.
C5_Witness ==
    /\ last.op = "loop"
    /\ last.key = KeyLBracket
    /\ contrast = F01

\* C6: '+' or '=' sets brightness to min(100, brightness + 5), '-' to
\* max(-100, brightness - 5), ']' sets contrast to min(3.0, contrast + 0.1), '[' to
\* max(0.1, contrast - 0.1); each key leaves the other field as it was.
C6_KeysApplyBoundedUpdate ==
    [][(last'.op = "loop" /\ last'.ret = "handled")
         => /\ last'.key \in {43, 61}
                => /\ brightness' = (IF brightness + 5 > 100 THEN 100 ELSE brightness + 5)
                   /\ contrast' = contrast
            /\ last'.key = 45
                => /\ brightness' = (IF brightness - 5 < 0 - 100 THEN 0 - 100
                                     ELSE brightness - 5)
                   /\ contrast' = contrast
            /\ last'.key = 93
                => /\ contrast' = (IF FLess(F30, FAdd(contrast, F01)) THEN F30
                                   ELSE FAdd(contrast, F01))
                   /\ brightness' = brightness
            /\ last'.key = 91
                => /\ contrast' = (IF FLess(FSub(contrast, F01), F01) THEN F01
                                   ELSE FSub(contrast, F01))
                   /\ brightness' = brightness]_vars

\* The key ']' was handled with contrast reaching 3.0 after brightness was changed.
C6_Witness ==
    /\ last.op = "loop"
    /\ last.ret = "handled"
    /\ last.key = KeyRBracket
    /\ contrast = F30
    /\ brightness # 0

\* C7: a step changes brightness or contrast only when it is a pass of the loop
\* that handled one of the keys '+', '=', '-', '[', ']'.
C7_OnlyAdjustmentKeysChangeSettings ==
    [][(brightness' # brightness \/ contrast' # contrast)
         => /\ last'.op = "loop"
            /\ last'.ret = "handled"
            /\ last'.key \in {KeyPlus, KeyEquals, KeyMinus, KeyLBracket, KeyRBracket}]_vars

\* A single-shot capture has run to its end with both settings away from their
\* defaults.
C7_Witness ==
    /\ last.op = "capture_single_image"
    /\ last.ret = "true"
    /\ brightness # BrightnessDefault
    /\ contrast # ContrastDefault

\* The open of this step failed: no object was made, or isOpened() was False.
OpenFailedStep == handles' = handles \/ ~handles'[Len(handles')].opened

\* C8: a setup whose open fails on a pipeline that is not initialized returns False
\* and leaves is_initialized False; a capture_frame while is_initialized is False
\* returns no frame and makes no call to the device.
C8_FailedOpenStaysUninitialized ==
    [][/\ (last'.op = "setup" /\ OpenFailedStep /\ ~is_initialized)
            => (last'.ret = "false" /\ ~is_initialized')
       /\ (last'.op = "capture_frame" /\ last.op = "setup" /\ last.ret = "false"
           /\ ~is_initialized)
            => (last'.ret = "none" /\ last'.calls = << >> /\ ~is_initialized')]_vars

\* capture_frame has run right after a failed open and returned no frame without a
\* read.
C8_Witness ==
    /\ last.op = "capture_frame"
    /\ last.ret = "none"
    /\ last.calls = << >>
    /\ cap # 0
    /\ ~handles[cap].opened
    /\ ~is_initialized

\* C9: a capture in state Ready that yields no frame (directly or in a pass of the
\* loop) has read from the device and leaves the handle, is_initialized and the
\* devices as they were: the pipeline is still Ready.
C9_FailedReadKeepsState ==
    [][(/\ Ready
        /\ \/ (last'.op = "capture_frame" /\ last'.ret = "none")
           \/ (last'.op = "loop" /\ last'.ret = "continue"))
         => /\ last'.calls = <<"read">>
            /\ cap' = cap
            /\ is_initialized' = is_initialized
            /\ handles' = handles]_vars

\* A direct capture_frame has failed its read and the pipeline is Ready.
C9_Witness ==
    /\ last.op = "capture_frame"
    /\ last.ret = "none"
    /\ last.calls = <<"read">>
    /\ Ready

\* C10: a release leaves is_initialized False; is_initialized becomes True only by
\* a successful initialization; a capture_frame while is_initialized is False, or
\* while the handle held has been released, returns no frame and reads nothing.
C10_ReleasedNeedsNewInit ==
    [][/\ (last'.op \in {"release_camera", "cleanup"}) => ~is_initialized'
       /\ (~is_initialized /\ is_initialized')
            => \/ (last'.op = "setup" /\ last'.ret = "true")
               \/ (last'.op = "loop" /\ last'.ret = "entered")
       /\ (last'.op = "capture_frame"
           /\ (~is_initialized \/ (cap # 0 /\ handles[cap].releases > 0)))
            => (last'.ret = "none" /\ last'.calls = << >>)]_vars

\* capture_frame has run on a released pipeline and returned no frame without a read.
C10_Witness ==
    /\ last.op = "capture_frame"
    /\ last.ret = "none"
    /\ last.calls = << >>
    /\ cap # 0
    /\ handles[cap].opened
    /\ handles[cap].releases > 0

\* The last operation made the external call x.
Called(x) == \E i \in DOMAIN last.calls : last.calls[i] = x

\* main() ended in a failure or an interruption: an invalid choice, an interrupt, an
\* exception caught at the top level, a single capture that returned False, an
\* interactive mode that could not initialize or was interrupted.
MainFailed ==
    \/ proc.why \in {"invalid", "interrupt", "error"}
    \/ (last.op = "capture_single_image" /\ last.ret = "false")
    \/ (last.op = "run_interactive_mode" /\ ~Called("destroyAllWindows"))
    \/ (last.op = "run_interactive_mode" /\ Called("KeyboardInterrupt"))

\* C11: the process ends with exit code 0 when the mode chosen completed and with
\* exit code 1 on a failure or an interruption.
C11_ExitCodeReportsFailure ==
    proc.at = "exited" => proc.code = (IF MainFailed THEN 1 ELSE 0)

\* C12: with settings within their bounds the transform gives, for a sample s,
\* clamp(round(contrast * s + brightness), 0, 255): 255 above 255 and 0 below 0.
C12_TransformClampsAffine ==
    (last.op = "adjust_brightness_contrast" /\ last.ret = "adjusted")
        => LET v == RoundQuarters(Quarters(contrast) * pixel.in + 4 * brightness)
           IN  pixel.out = (IF v < 0 THEN 0 ELSE IF v > 255 THEN 255 ELSE v)

\* C13: once the quit key has been pressed the loop eventually terminates and
\* the device is released, whatever the outcomes of the reads, as long as the
\* loop keeps being scheduled.
C13_QuitEventuallyEnds ==
    quit_pressed ~> (pc = "idle" /\ \A h \in DOMAIN handles : ~HandleOpen(handles, h))

\* C14: a pass of the loop whose read gives no frame ends there: no transform,
\* display, key poll or save; brightness, contrast, the save counter and running
\* are unchanged, and the session goes on, the device and the windows as they were.
C14_FailedReadIsRetried ==
    [][(pc = "loop" /\ last'.op = "loop" /\ last'.ret = "continue" /\ iters' # iters)
         => /\ \A i \in DOMAIN last'.calls : last'.calls[i] = "read"
            /\ last'.key = NoKey
            /\ brightness' = brightness
            /\ contrast' = contrast
            /\ frame_count' = frame_count
            /\ names' = names
            /\ running' = running
            /\ running'
            /\ pc' = "loop"
            /\ cap' = cap
            /\ is_initialized' = is_initialized
            /\ handles' = handles
            /\ windows' = windows]_vars

\* A pass has failed its read with the device open; the session is still running.
C14_Witness ==
    /\ last.op = "loop"
    /\ last.ret = "continue"
    /\ last.calls = <<"read">>
    /\ pc = "loop"
    /\ running
    /\ Ready

\* The number the digits ds write in decimal.
RECURSIVE ParseDigits(_)
ParseDigits(ds) ==
    IF ds = << >> THEN 0
    ELSE 10 * ParseDigits(SubSeq(ds, 1, Len(ds) - 1)) + ds[Len(ds)]

\* The filenames of the session so far are imagen_0000.jpg, imagen_0001.jpg, ...:
\* strictly increasing, no two the same.
C15_Names ==
    pc = "loop"
        => /\ Len(names) = frame_count
           /\ \A i \in DOMAIN names : names[i] = <<"imagen_", Format04d(i - 1), ".jpg">>
           /\ \A i, j \in DOMAIN names :
                i < j => /\ names[i] # names[j]
                         /\ Len(names[i][2]) = Len(names[j][2])
                         /\ ParseDigits(names[i][2]) < ParseDigits(names[j][2])

C15_Step ==
    /\ (pc # "loop" /\ pc' = "loop") => frame_count' = 0
    /\ (pc = "loop" /\ pc' = "loop")
         => frame_count' = IF last'.op = "loop" /\ last'.ret = "handled"
                              /\ last'.key = KeySave
                           THEN frame_count + 1 ELSE frame_count

\* C15: the save counter is 0 when the loop is entered, goes up by one on every
\* save key whether or not the file was written, and changes on nothing else; the
\* filenames of a session are strictly increasing and no two saves share one.
C15_CounterCountsSaveKeys ==
    []C15_Names /\ [][C15_Step]_vars

\* The second save key of a session, whose write failed before imwrite.
C15_Witness ==
    /\ pc = "loop"
    /\ last.op = "loop"
    /\ last.key = KeySave
    /\ ~Called("imwrite")
    /\ frame_count = 2
    /\ names = <<Filename(0), Filename(1)>>

\* The step of the single shot an external call belongs to: open 1, read 2,
\* transform 3, write 4, release 5.
StepOf(call) ==
    IF call \in {"VideoCapture", "isOpened", "set"} THEN 1
    ELSE IF call = "read" THEN 2
    ELSE IF call = "convertScaleAbs" THEN 3
    ELSE IF call \in {"mkdir", "imwrite"} THEN 4
    ELSE 5

\* The calls go through the steps in their order, none taken up again.
InStepOrder(calls) ==
    \A i \in 1 .. Len(calls) - 1 : StepOf(calls[i]) <= StepOf(calls[i + 1])

In(calls, x) == \E i \in DOMAIN calls : calls[i] = x

\* C16: the single shot goes open, read, transform, write, release and stops at
\* the first step that fails: it reads only after a successful open, writes only
\* after a successful read, and returns True exactly when the open, the read and
\* the write all succeeded.
C16_SingleShotOrder ==
    (pc = "idle" /\ Len(handles) < MaxHandles)
        => \A oi \in OpenOutcomes, oc \in ReadOutcomes, ot \in TransformOutcomes,
              os \in SaveOutcomes :
             LET r == capture_single_image(World, oi, oc, ot, os)
                 opened == oi \in {"set_false", "ok"}
             IN  /\ r.calls[1] = "VideoCapture"
                 /\ InStepOrder(r.calls)
                 /\ In(r.calls, "read") <=> opened
                 /\ In(r.calls, "convertScaleAbs") <=> (opened /\ oc = "frame")
                 /\ In(r.calls, "mkdir") <=> (opened /\ oc = "frame")
                 /\ In(r.calls, "imwrite") <=> (opened /\ oc = "frame" /\ os # "mkdir_raises")
                 /\ (r.ret = "true") <=> (opened /\ oc = "frame" /\ os = "written")
                 /\ r.ret \in {"true", "false"}

\* A single shot has gone through all five steps and returned True.
C16_Witness ==
    /\ last.op = "capture_single_image"
    /\ last.ret = "true"
    /\ last.calls = <<"VideoCapture", "isOpened", "set", "set", "read", "convertScaleAbs",
                      "mkdir", "imwrite", "release", "destroyAllWindows">>

\* C17: is_initialized is True only while the handle held is there, opened and not
\* released; a failed initialization after a successful one does not leave it
\* True over a handle that was not opened.
C17_InitializedHoldsOpenHandle ==
    is_initialized => (cap # 0 /\ handles[cap].opened /\ handles[cap].releases = 0)

\* C18: at most one device handle is open at a time: a second initialization
\* never leaves two opened handles without their release, and never leaves an
\* open handle the pipeline no longer holds.
C18_AtMostOneOpenHandle ==
    /\ Cardinality({h \in DOMAIN handles : HandleOpen(handles, h)}) <= 1
    /\ \A h \in DOMAIN handles : HandleOpen(handles, h) => h = cap

====
